---- MODULE Spec2Model ----
(***************************************************************************)
(* Model of the gedv geometry and collision library.                       *)
(*                                                                         *)
(* The library is a set of pure functions over tagged value types          *)
(* (Position, Size, Rect).  The model is a call harness: from the idle     *)
(* state one library function is called on operands drawn from bounded     *)
(* sets, the call record and the returned value (or the panic) become the  *)
(* state, and a DPI conversion may be chained on the value just returned   *)
(* to make a round trip.  The numeric representation T is instantiated as  *)
(* a signed two's complement integer of IntBits bits.                      *)
(***************************************************************************)
EXTENDS Integers, Sequences, FiniteSets, TLC

VARIABLES overflow_checks, pc, call, ret, prev

vars == <<overflow_checks, pc, call, ret, prev>>

(***************************************************************************)
(* Bounds of the model.                                                    *)
(***************************************************************************)
\* collision operands have their coordinates in 0..MaxCoord
MaxCoord == 2
\* conversion operands have their components in -MaxComp..MaxComp; with
\* the DPI arguments below no product of a conversion leaves the range of T
MaxComp == 2

\* extra mouse buttons are Ex(0) .. Ex(MaxEx), in lists of at most MaxList
MaxEx == 29
MaxList == 2

CoordRange == 0..MaxCoord
CompRange == (0 - MaxComp)..MaxComp
\* DPI arguments: zero, a negative value, and the usual scale factors
\* 50%, 100%, 125%, 150%, 200%
Dpis == {0 - 96, 0, 48, 96, 120, 144, 192}

(***************************************************************************)
(* The numeric representation T: a signed integer of IntBits bits.         *)
(***************************************************************************)
IntBits == 16
Modulus == 2 ^ IntBits
MaxInt == 2 ^ (IntBits - 1) - 1
MinInt == 0 - 2 ^ (IntBits - 1)
InRange(n) == MinInt <= n /\ n <= MaxInt

Ok(v) == [ok |-> TRUE, val |-> v]
Panic(msg) == [ok |-> FALSE, val |-> msg]

Abs(n) == IF n < 0 THEN 0 - n ELSE n

\* two's complement wrap-around of an out-of-range result
Wrap(n) == ((n - MinInt) % Modulus) + MinInt

\* a variant that rounds toward minus infinity
TruncDiv_floor(a, b) == IF b > 0 THEN a \div b ELSE (0 - a) \div (0 - b)

\* integer division rounds toward zero
TruncDiv(a, b) ==
    IF (a < 0) = (b < 0) THEN Abs(a) \div Abs(b) ELSE 0 - (Abs(a) \div Abs(b))

\* T::mul : overflow panics when overflow checks are compiled in, wraps otherwise
mul(a, b) ==
    IF InRange(a * b) THEN Ok(a * b)
    ELSE IF overflow_checks THEN Panic("attempt to multiply with overflow")
    ELSE Ok(Wrap(a * b))

\* T::div : a zero divisor and MIN / -1 panic in every build
div(a, b) ==
    IF b = 0 THEN Panic("attempt to divide by zero")
    ELSE IF a = MinInt /\ b = 0 - 1 THEN Panic("attempt to divide with overflow")
    ELSE Ok(TruncDiv(a, b))

\* num::cast(n).unwrap() : None when n is not representable in T
cast_unwrap(n) ==
    IF InRange(n) THEN Ok(n) ELSE Panic("called Option::unwrap on a None value")

(***************************************************************************)
(* Value types.  The coordinate-space tag is a type parameter in the       *)
(* source; the model carries it as a field.                                *)
(***************************************************************************)
CoordTags == {"Logical", "Physical", "Screen"}

Position(c, x, y) == [kind |-> "Position", coord |-> c, x |-> x, y |-> y]
Size(c, w, h) == [kind |-> "Size", coord |-> c, width |-> w, height |-> h]
Rect(c, l, t, r, b) ==
    [kind |-> "Rect", coord |-> c, left |-> l, top |-> t, right |-> r, bottom |-> b]

left_top(r) == Position(r.coord, r.left, r.top)
left_bottom(r) == Position(r.coord, r.left, r.bottom)
right_top(r) == Position(r.coord, r.right, r.top)
right_bottom(r) == Position(r.coord, r.right, r.bottom)

DEFAULT_DPI == 96

(***************************************************************************)
(* collision.rs : the three Collision impls and the two free functions.    *)
(***************************************************************************)
\* variants that leave one edge out of the extent
Position_is_crossing_Rect_open_left(self, rhs) ==
    self.x > rhs.left /\ self.y >= rhs.top /\ self.x <= rhs.right /\ self.y <= rhs.bottom

Position_is_crossing_Rect_open_bottom(self, rhs) ==
    self.x >= rhs.left /\ self.y >= rhs.top /\ self.x <= rhs.right /\ self.y < rhs.bottom

Position_is_crossing_Rect(self, rhs) ==
    self.x >= rhs.left /\ self.y >= rhs.top /\ self.x <= rhs.right /\ self.y <= rhs.bottom

\* a "proper containment" rule: the rectangle must have degenerated to the point
Position_contains_Rect_proper(self, inner) ==
    self.x = inner.left /\ self.x = inner.right /\ self.y = inner.top /\ self.y = inner.bottom

Position_contains_Rect(self, inner) == Position_is_crossing_Rect(self, inner)

Rect_is_crossing_Position(self, rhs) == Position_is_crossing_Rect(rhs, self)

Rect_contains_Position(self, inner) == Rect_is_crossing_Position(self, inner)

Min(a, b) == IF a <= b THEN a ELSE b
Max(a, b) == IF a >= b THEN a ELSE b

\* a variant that first reorders the edges of both rectangles
Rect_is_crossing_Rect_normalized(self, rhs) ==
    /\ Min(self.left, self.right) <= Max(rhs.left, rhs.right)
    /\ Min(self.top, self.bottom) <= Max(rhs.top, rhs.bottom)
    /\ Max(self.left, self.right) >= Min(rhs.left, rhs.right)
    /\ Max(self.top, self.bottom) >= Min(rhs.top, rhs.bottom)

\* a variant whose first comparison is strict
Rect_is_crossing_Rect_strict_left(self, rhs) ==
    /\ self.left < rhs.right
    /\ self.top <= rhs.bottom
    /\ self.right >= rhs.left
    /\ self.bottom >= rhs.top

\* a variant that compares the horizontal extents only
Rect_is_crossing_Rect_x_only(self, rhs) ==
    /\ self.left <= rhs.right
    /\ self.right >= rhs.left

Rect_is_crossing_Rect(self, rhs) ==
    /\ self.left <= rhs.right
    /\ self.top <= rhs.bottom
    /\ self.right >= rhs.left
    /\ self.bottom >= rhs.top

\* a variant that excludes an inner rectangle touching the far edges
Rect_contains_Rect_open_far(self, inner) ==
    /\ self.left <= inner.left
    /\ self.top <= inner.top
    /\ self.right > inner.right
    /\ self.bottom > inner.bottom

\* a variant that only asks for the near corner of inner to lie in self
Rect_contains_Rect_near_corner(self, inner) ==
    /\ self.left <= inner.left
    /\ self.top <= inner.top
    /\ self.right >= inner.left
    /\ self.bottom >= inner.top

\* a variant that leaves out the comparison of the right edges
Rect_contains_Rect_no_right(self, inner) ==
    /\ self.left <= inner.left
    /\ self.top <= inner.top
    /\ self.bottom >= inner.bottom

Rect_contains_Rect(self, inner) ==
    /\ self.left <= inner.left
    /\ self.top <= inner.top
    /\ self.right >= inner.right
    /\ self.bottom >= inner.bottom

\* the pairs of operand kinds for which Collision is implemented
CollisionImpls == {<<"Position", "Rect">>, <<"Rect", "Position">>, <<"Rect", "Rect">>}

is_crossing(lhs, rhs) ==
    CASE lhs.kind = "Position" /\ rhs.kind = "Rect" -> Position_is_crossing_Rect(lhs, rhs)
      [] lhs.kind = "Rect" /\ rhs.kind = "Position" -> Rect_is_crossing_Position(lhs, rhs)
      [] lhs.kind = "Rect" /\ rhs.kind = "Rect" -> Rect_is_crossing_Rect(lhs, rhs)

contains(outer, inner) ==
    CASE outer.kind = "Position" /\ inner.kind = "Rect" -> Position_contains_Rect(outer, inner)
      [] outer.kind = "Rect" /\ inner.kind = "Position" -> Rect_contains_Position(outer, inner)
      [] outer.kind = "Rect" /\ inner.kind = "Rect" -> Rect_contains_Rect(outer, inner)

(***************************************************************************)
(* geometry.rs : the DPI conversion protocol.                              *)
(***************************************************************************)
\* the arguments of a constructor call are evaluated left to right: the
\* first panic, or the values
Args(rs) ==
    IF \E i \in DOMAIN rs : ~rs[i].ok
    THEN rs[CHOOSE i \in DOMAIN rs : ~rs[i].ok /\ \A j \in 1..(i - 1) : rs[j].ok]
    ELSE Ok([i \in DOMAIN rs |-> rs[i].val])

\* a variant that divides before it multiplies: (a / dpi) * 96
to_logical_value_div_first(a, dpi) ==
    LET q == div(a, dpi)
        k == cast_unwrap(DEFAULT_DPI)
    IN  IF ~q.ok THEN q ELSE IF ~k.ok THEN k ELSE mul(q.val, k.val)

\* a variant that guards against a zero dpi
to_logical_value_guarded(a, dpi) ==
    LET k == cast_unwrap(DEFAULT_DPI)
        m == IF k.ok THEN mul(a, k.val) ELSE k
    IN  IF dpi = 0 THEN Ok(a) ELSE IF m.ok THEN div(m.val, dpi) ELSE m

\* a * num::cast(DEFAULT_DPI).unwrap() / dpi
to_logical_value(a, dpi) ==
    LET k == cast_unwrap(DEFAULT_DPI)
        m == IF k.ok THEN mul(a, k.val) ELSE k
    IN  IF m.ok THEN div(m.val, dpi) ELSE m

\* a variant that scales by the whole factor: a * (dpi / 96)
to_physical_value_scale_first(a, dpi) ==
    LET k == cast_unwrap(DEFAULT_DPI)
        q == IF k.ok THEN div(dpi, k.val) ELSE k
    IN  IF q.ok THEN mul(a, q.val) ELSE q

\* a * dpi / num::cast(DEFAULT_DPI).unwrap()
to_physical_value(a, dpi) ==
    LET m == mul(a, dpi)
        k == cast_unwrap(DEFAULT_DPI)
    IN  IF ~m.ok THEN m ELSE IF ~k.ok THEN k ELSE div(m.val, k.val)

PhysicalPosition_to_logical(self, dpi) ==
    LET a == Args(<<to_logical_value(self.x, dpi), to_logical_value(self.y, dpi)>>)
    IN  IF a.ok THEN Ok(Position("Logical", a.val[1], a.val[2])) ELSE a

PhysicalSize_to_logical(self, dpi) ==
    LET a == Args(<<to_logical_value(self.width, dpi), to_logical_value(self.height, dpi)>>)
    IN  IF a.ok THEN Ok(Size("Logical", a.val[1], a.val[2])) ELSE a

\* a variant whose result keeps the tag of its source
PhysicalRect_to_logical_same_tag(self, dpi) ==
    LET a == Args(<<to_logical_value(self.left, dpi), to_logical_value(self.top, dpi),
                    to_logical_value(self.right, dpi), to_logical_value(self.bottom, dpi)>>)
    IN  IF a.ok THEN Ok(Rect(self.coord, a.val[1], a.val[2], a.val[3], a.val[4])) ELSE a

PhysicalRect_to_logical(self, dpi) ==
    LET a == Args(<<to_logical_value(self.left, dpi), to_logical_value(self.top, dpi),
                    to_logical_value(self.right, dpi), to_logical_value(self.bottom, dpi)>>)
    IN  IF a.ok THEN Ok(Rect("Logical", a.val[1], a.val[2], a.val[3], a.val[4])) ELSE a

LogicalPosition_to_physical(self, dpi) ==
    LET a == Args(<<to_physical_value(self.x, dpi), to_physical_value(self.y, dpi)>>)
    IN  IF a.ok THEN Ok(Position("Physical", a.val[1], a.val[2])) ELSE a

LogicalSize_to_physical(self, dpi) ==
    LET a == Args(<<to_physical_value(self.width, dpi), to_physical_value(self.height, dpi)>>)
    IN  IF a.ok THEN Ok(Size("Physical", a.val[1], a.val[2])) ELSE a

\* a variant that passes the converted edges to Rect::new in the wrong order
LogicalRect_to_physical_swapped(self, dpi) ==
    LET a == Args(<<to_physical_value(self.left, dpi), to_physical_value(self.top, dpi),
                    to_physical_value(self.right, dpi), to_physical_value(self.bottom, dpi)>>)
    IN  IF a.ok THEN Ok(Rect("Physical", a.val[3], a.val[2], a.val[1], a.val[4])) ELSE a

LogicalRect_to_physical(self, dpi) ==
    LET a == Args(<<to_physical_value(self.left, dpi), to_physical_value(self.top, dpi),
                    to_physical_value(self.right, dpi), to_physical_value(self.bottom, dpi)>>)
    IN  IF a.ok THEN Ok(Rect("Physical", a.val[1], a.val[2], a.val[3], a.val[4])) ELSE a

\* a variant of the same-space conversion that rescales by DEFAULT_DPI / dpi
Logical_to_logical_rescaled(self, dpi) ==
    CASE self.kind = "Position" -> PhysicalPosition_to_logical(self, dpi)
      [] self.kind = "Size" -> PhysicalSize_to_logical(self, dpi)
      [] self.kind = "Rect" -> PhysicalRect_to_logical(self, dpi)

\* ToLogical for LogicalPosition / LogicalSize / LogicalRect : *self
Logical_to_logical(self, dpi) == Ok(self)

\* ToPhysical for PhysicalPosition / PhysicalSize / PhysicalRect : *self
Physical_to_physical(self, dpi) == Ok(self)

\* the values for which ToLogical and ToPhysical are implemented
HasConversion(v) == v.coord \in {"Logical", "Physical"}

to_logical(self, dpi) ==
    CASE self.coord = "Logical" -> Logical_to_logical(self, dpi)
      [] self.coord = "Physical" /\ self.kind = "Position" -> PhysicalPosition_to_logical(self, dpi)
      [] self.coord = "Physical" /\ self.kind = "Size" -> PhysicalSize_to_logical(self, dpi)
      [] self.coord = "Physical" /\ self.kind = "Rect" -> PhysicalRect_to_logical(self, dpi)

to_physical(self, dpi) ==
    CASE self.coord = "Physical" -> Physical_to_physical(self, dpi)
      [] self.coord = "Logical" /\ self.kind = "Position" -> LogicalPosition_to_physical(self, dpi)
      [] self.coord = "Logical" /\ self.kind = "Size" -> LogicalSize_to_physical(self, dpi)
      [] self.coord = "Logical" /\ self.kind = "Rect" -> LogicalRect_to_physical(self, dpi)

(***************************************************************************)
(* geometry.rs : arithmetic operators, Rect constructors and Rect::size.   *)
(***************************************************************************)
\* T::add and T::sub : overflow panics when overflow checks are compiled in,
\* wraps otherwise
add(a, b) ==
    IF InRange(a + b) THEN Ok(a + b)
    ELSE IF overflow_checks THEN Panic("attempt to add with overflow")
    ELSE Ok(Wrap(a + b))

sub(a, b) ==
    IF InRange(a - b) THEN Ok(a - b)
    ELSE IF overflow_checks THEN Panic("attempt to subtract with overflow")
    ELSE Ok(Wrap(a - b))

\* a variant that scales x only
Position_mul_x_only(self, rhs) ==
    LET a == Args(<<mul(self.x, rhs)>>)
    IN  IF a.ok THEN Ok(Position(self.coord, a.val[1], self.y)) ELSE a

Position_mul(self, rhs) ==
    LET a == Args(<<mul(self.x, rhs), mul(self.y, rhs)>>)
    IN  IF a.ok THEN Ok(Position(self.coord, a.val[1], a.val[2])) ELSE a

Position_div(self, rhs) ==
    LET a == Args(<<div(self.x, rhs), div(self.y, rhs)>>)
    IN  IF a.ok THEN Ok(Position(self.coord, a.val[1], a.val[2])) ELSE a

Size_mul(self, rhs) ==
    LET a == Args(<<mul(self.width, rhs), mul(self.height, rhs)>>)
    IN  IF a.ok THEN Ok(Size(self.coord, a.val[1], a.val[2])) ELSE a

Size_div(self, rhs) ==
    LET a == Args(<<div(self.width, rhs), div(self.height, rhs)>>)
    IN  IF a.ok THEN Ok(Size(self.coord, a.val[1], a.val[2])) ELSE a

Rect_mul(self, rhs) ==
    LET a == Args(<<mul(self.left, rhs), mul(self.top, rhs),
                    mul(self.right, rhs), mul(self.bottom, rhs)>>)
    IN  IF a.ok THEN Ok(Rect(self.coord, a.val[1], a.val[2], a.val[3], a.val[4])) ELSE a

Rect_div(self, rhs) ==
    LET a == Args(<<div(self.left, rhs), div(self.top, rhs),
                    div(self.right, rhs), div(self.bottom, rhs)>>)
    IN  IF a.ok THEN Ok(Rect(self.coord, a.val[1], a.val[2], a.val[3], a.val[4])) ELSE a

\* Position + Size -> Position
Position_add_Size(self, rhs) ==
    LET a == Args(<<add(self.x, rhs.width), add(self.y, rhs.height)>>)
    IN  IF a.ok THEN Ok(Position(self.coord, a.val[1], a.val[2])) ELSE a

\* Size + Position -> Position
Size_add_Position(self, rhs) ==
    LET a == Args(<<add(self.width, rhs.x), add(self.height, rhs.y)>>)
    IN  IF a.ok THEN Ok(Position(self.coord, a.val[1], a.val[2])) ELSE a

\* Rect + Position -> Rect
Rect_add_Position(self, rhs) ==
    LET a == Args(<<add(self.left, rhs.x), add(self.top, rhs.y),
                    add(self.right, rhs.x), add(self.bottom, rhs.y)>>)
    IN  IF a.ok THEN Ok(Rect(self.coord, a.val[1], a.val[2], a.val[3], a.val[4])) ELSE a

\* Position + Rect -> Rect
Position_add_Rect(self, rhs) ==
    LET a == Args(<<add(rhs.left, self.x), add(rhs.top, self.y),
                    add(rhs.right, self.x), add(rhs.bottom, self.y)>>)
    IN  IF a.ok THEN Ok(Rect(self.coord, a.val[1], a.val[2], a.val[3], a.val[4])) ELSE a

\* a variant that orders the two corners
Rect_from_positions_sorted(lt, rb) ==
    Ok(Rect(lt.coord, Min(lt.x, rb.x), Min(lt.y, rb.y), Max(lt.x, rb.x), Max(lt.y, rb.y)))

Rect_from_positions(lt, rb) == Ok(Rect(lt.coord, lt.x, lt.y, rb.x, rb.y))

Rect_from_position_size(position, size) ==
    LET a == Args(<<add(position.x, size.width), add(position.y, size.height)>>)
    IN  IF a.ok THEN Ok(Rect(position.coord, position.x, position.y, a.val[1], a.val[2]))
        ELSE a

Rect_size(self) ==
    LET a == Args(<<sub(self.right, self.left), sub(self.bottom, self.top)>>)
    IN  IF a.ok THEN Ok(Size(self.coord, a.val[1], a.val[2])) ELSE a

\* value * scalar and value / scalar, the impl selected by the type of value
Mul(self, rhs) ==
    CASE self.kind = "Position" -> Position_mul(self, rhs)
      [] self.kind = "Size" -> Size_mul(self, rhs)
      [] self.kind = "Rect" -> Rect_mul(self, rhs)

Div(self, rhs) ==
    CASE self.kind = "Position" -> Position_div(self, rhs)
      [] self.kind = "Size" -> Size_div(self, rhs)
      [] self.kind = "Rect" -> Rect_div(self, rhs)

\* the pairs of operand kinds for which Add is implemented
AddImpls == {<<"Position", "Size">>, <<"Size", "Position">>,
             <<"Rect", "Position">>, <<"Position", "Rect">>}

Add(self, rhs) ==
    CASE self.kind = "Position" /\ rhs.kind = "Size" -> Position_add_Size(self, rhs)
      [] self.kind = "Size" /\ rhs.kind = "Position" -> Size_add_Position(self, rhs)
      [] self.kind = "Rect" /\ rhs.kind = "Position" -> Rect_add_Position(self, rhs)
      [] self.kind = "Position" /\ rhs.kind = "Rect" -> Position_add_Rect(self, rhs)

(***************************************************************************)
(* mouse.rs : MouseButton and the MouseButtons bitset.  A u32 is modelled  *)
(* by the set of the positions of its one bits, 0 being the lowest.        *)
(***************************************************************************)
U32Bits == 32

Left == [tag |-> "Left", index |-> 0]
Right == [tag |-> "Right", index |-> 0]
Middle == [tag |-> "Middle", index |-> 0]
Ex(i) == [tag |-> "Ex", index |-> i]

\* 0x01 << n on u32 : a shift by the width or more panics when overflow
\* checks are compiled in, and is taken modulo the width otherwise
shl1(n) ==
    IF n < U32Bits THEN Ok({n})
    ELSE IF overflow_checks THEN Panic("attempt to shift left with overflow")
    ELSE Ok({n % U32Bits})

as_u32(button) ==
    CASE button.tag = "Left" -> Ok({0})
      [] button.tag = "Right" -> shl1(1)
      [] button.tag = "Middle" -> shl1(2)
      [] button.tag = "Ex" -> shl1(button.index + 3)

MouseButtons_new == {}

\* self.0 & button == button
MouseButtons_contains(self, button) ==
    LET b == as_u32(button)
    IN  IF b.ok THEN Ok((self \cap b.val) = b.val) ELSE b

\* MouseButton | MouseButton
MouseButton_bitor(self, rhs) ==
    LET a == as_u32(self)
        b == as_u32(rhs)
    IN  IF ~a.ok THEN a ELSE IF ~b.ok THEN b ELSE Ok(a.val \cup b.val)

\* MouseButtons | MouseButton
MouseButtons_bitor(self, rhs) ==
    LET b == as_u32(rhs)
    IN  IF b.ok THEN Ok(self \cup b.val) ELSE b

\* value.iter().fold(MouseButtons::new(), |r, b| r | *b)
RECURSIVE fold_bitor(_, _)
fold_bitor(r, value) ==
    IF value = <<>> THEN Ok(r)
    ELSE LET n == MouseButtons_bitor(r, Head(value))
         IN  IF n.ok THEN fold_bitor(n.val, Tail(value)) ELSE n

MouseButtons_from(value) == fold_bitor(MouseButtons_new, value)

(***************************************************************************)
(* geometry.rs, cfg(windows) : conversions to and from POINT, SIZE, RECT.  *)
(* An i32 is an integer of MinI32..MaxI32.  A u32 does not fit the         *)
(* integers of the model checker, so it is the record of its two 16-bit    *)
(* halves: [hi, lo] is the value hi * 2^16 + lo.                           *)
(***************************************************************************)
Half == 65536
MaxI32 == 2147483647
MinI32 == (0 - MaxI32) - 1

U32(hi, lo) == [hi |-> hi, lo |-> lo]

\* a variant that clamps to i32::MAX what does not fit
u32_as_i32_saturating(v) ==
    IF v.hi < Half \div 2 THEN v.hi * Half + v.lo ELSE MaxI32

\* `v as i32` for a u32 : the same 32 bits, read as two's complement
u32_as_i32(v) ==
    IF v.hi < Half \div 2 THEN v.hi * Half + v.lo ELSE (v.hi - Half) * Half + v.lo

\* `n as u32` for an i32 : the same 32 bits, read as unsigned
i32_as_u32(n) ==
    IF n >= 0 THEN U32(n \div Half, n % Half)
    ELSE LET m == (n + MaxI32) + 1
         IN  U32(Half \div 2 + m \div Half, m % Half)

POINT(x, y) == [kind |-> "POINT", x |-> x, y |-> y]
SIZE(cx, cy) == [kind |-> "SIZE", cx |-> cx, cy |-> cy]
RECT(l, t, r, b) == [kind |-> "RECT", left |-> l, top |-> t, right |-> r, bottom |-> b]

POINT_from_PhysicalPosition(value) == POINT(value.x, value.y)

PhysicalPosition_from_POINT(value) == Position("Physical", value.x, value.y)

SIZE_from_PhysicalSize(value) == SIZE(u32_as_i32(value.width), u32_as_i32(value.height))

PhysicalSize_from_SIZE(value) == Size("Physical", i32_as_u32(value.cx), i32_as_u32(value.cy))

RECT_from_PhysicalRect(value) == RECT(value.left, value.top, value.right, value.bottom)

PhysicalRect_from_RECT(value) ==
    Rect("Physical", value.left, value.top, value.right, value.bottom)

(***************************************************************************)
(* The call harness.                                                       *)
(***************************************************************************)
NoCall == [fn |-> "none"]
NoRet == [ok |-> TRUE, val |-> "none"]

Positions(c, range) == {Position(c, x, y) : x \in range, y \in range}
Sizes(c, range) == {Size(c, w, h) : w \in range, h \in range}
Rects(c, range) == {Rect(c, l, t, r, b) : l \in range, t \in range, r \in range, b \in range}

\* operands of the collision predicates, all in the coordinate space c
Shapes(c) == Positions(c, CoordRange) \cup Rects(c, CoordRange)

\* operands of the conversions
Convertibles ==
    UNION {Positions(c, CompRange) \cup Sizes(c, CompRange) \cup Rects(c, CompRange) :
           c \in {"Logical", "Physical"}}

Init ==
    /\ overflow_checks \in BOOLEAN
    /\ pc = "idle"
    /\ call = NoCall
    /\ ret = NoRet
    /\ prev = NoCall

Return(c, r) ==
    /\ call' = c
    /\ ret' = r
    /\ prev' = call
    /\ pc' = "done"
    /\ UNCHANGED overflow_checks

\* collision::is_crossing(&lhs, &rhs)
CallIsCrossing ==
    /\ pc = "idle"
    /\ \E c \in CoordTags : \E lhs \in Shapes(c), rhs \in Shapes(c) :
          /\ <<lhs.kind, rhs.kind>> \in CollisionImpls
          /\ Return([fn |-> "is_crossing", self |-> lhs, arg |-> rhs],
                    Ok(is_crossing(lhs, rhs)))

\* collision::contains(&outer, &inner)
CallContains ==
    /\ pc = "idle"
    /\ \E c \in CoordTags : \E outer \in Shapes(c), inner \in Shapes(c) :
          /\ <<outer.kind, inner.kind>> \in CollisionImpls
          /\ Return([fn |-> "contains", self |-> outer, arg |-> inner],
                    Ok(contains(outer, inner)))

\* value.to_logical(dpi)
CallToLogical ==
    /\ pc = "idle"
    /\ \E v \in Convertibles, dpi \in Dpis :
          /\ HasConversion(v)
          /\ Return([fn |-> "to_logical", self |-> v, arg |-> dpi], to_logical(v, dpi))

\* value.to_physical(dpi)
CallToPhysical ==
    /\ pc = "idle"
    /\ \E v \in Convertibles, dpi \in Dpis :
          /\ HasConversion(v)
          /\ Return([fn |-> "to_physical", self |-> v, arg |-> dpi], to_physical(v, dpi))

\* value.to_physical(dpi).to_logical(dpi) : the second call of a round trip
CallBackToLogical ==
    /\ pc = "done"
    /\ prev = NoCall
    /\ call.fn = "to_physical"
    /\ ret.ok
    /\ Return([fn |-> "to_logical", self |-> ret.val, arg |-> call.arg],
              to_logical(ret.val, call.arg))

\* value.to_logical(dpi).to_physical(dpi) : the second call of a round trip
CallBackToPhysical ==
    /\ pc = "done"
    /\ prev = NoCall
    /\ call.fn = "to_logical"
    /\ ret.ok
    /\ Return([fn |-> "to_physical", self |-> ret.val, arg |-> call.arg],
              to_physical(ret.val, call.arg))

\* operands of the arithmetic operators, all in the coordinate space c
Scalables(c) ==
    Positions(c, CompRange) \cup Sizes(c, CompRange) \cup Rects(c, CompRange)

Addables(c) ==
    Positions(c, CompRange) \cup Sizes(c, CompRange) \cup Rects(c, CoordRange)

\* value * k
CallMul ==
    /\ pc = "idle"
    /\ \E c \in CoordTags : \E v \in Scalables(c), k \in CompRange :
          Return([fn |-> "mul", self |-> v, arg |-> k], Mul(v, k))

\* value / k
CallDiv ==
    /\ pc = "idle"
    /\ \E c \in CoordTags : \E v \in Scalables(c), k \in CompRange :
          Return([fn |-> "div", self |-> v, arg |-> k], Div(v, k))

\* (value * k) / k : the division of a product by the same scalar
CallDivBack ==
    /\ pc = "done"
    /\ prev = NoCall
    /\ call.fn = "mul"
    /\ ret.ok
    /\ Return([fn |-> "div", self |-> ret.val, arg |-> call.arg], Div(ret.val, call.arg))

\* lhs + rhs
CallAdd ==
    /\ pc = "idle"
    /\ \E c \in CoordTags : \E lhs \in Addables(c), rhs \in Addables(c) :
          /\ <<lhs.kind, rhs.kind>> \in AddImpls
          /\ Return([fn |-> "add", self |-> lhs, arg |-> rhs], Add(lhs, rhs))

\* Rect::from_positions(left_top, right_bottom)
CallFromPositions ==
    /\ pc = "idle"
    /\ \E c \in CoordTags : \E lt \in Positions(c, CompRange), rb \in Positions(c, CompRange) :
          Return([fn |-> "from_positions", self |-> lt, arg |-> rb],
                 Rect_from_positions(lt, rb))

\* Rect::from_position_size(position, size)
CallFromPositionSize ==
    /\ pc = "idle"
    /\ \E c \in CoordTags : \E p \in Positions(c, CompRange), sz \in Sizes(c, CompRange) :
          Return([fn |-> "from_position_size", self |-> p, arg |-> sz],
                 Rect_from_position_size(p, sz))

NextArith ==
    \/ CallMul
    \/ CallDiv
    \/ CallDivBack
    \/ CallAdd
    \/ CallFromPositions
    \/ CallFromPositionSize

Next ==
    \/ CallIsCrossing
    \/ CallContains
    \/ CallToLogical
    \/ CallToPhysical
    \/ CallBackToLogical
    \/ CallBackToPhysical

Spec == Init /\ [][Next]_vars

\* components at the ends of the range of T, and positive DPI arguments
WideComps == {MinInt, 0 - 1, 0, 1, MaxInt}
WideDpis == {1, 48, 96, 192, MaxInt}

WideConvertibles ==
    UNION {Positions(c, WideComps) \cup Sizes(c, WideComps) \cup Rects(c, WideComps) :
           c \in {"Logical", "Physical"}}

\* value.to_logical(dpi), over the whole range of T
CallToLogicalWide ==
    /\ pc = "idle"
    /\ \E v \in WideConvertibles, dpi \in WideDpis :
          /\ HasConversion(v)
          /\ Return([fn |-> "to_logical", self |-> v, arg |-> dpi], to_logical(v, dpi))

\* value.to_physical(dpi), over the whole range of T
CallToPhysicalWide ==
    /\ pc = "idle"
    /\ \E v \in WideConvertibles, dpi \in WideDpis :
          /\ HasConversion(v)
          /\ Return([fn |-> "to_physical", self |-> v, arg |-> dpi], to_physical(v, dpi))

NextWide ==
    \/ CallToLogicalWide
    \/ CallToPhysicalWide

\* the conversions over the whole range of T
SpecWide == Init /\ [][NextWide]_vars

\* the buttons: the three named ones and Ex(0) .. Ex(MaxEx)
Buttons == {Left, Right, Middle} \cup {Ex(i) : i \in 0..MaxEx}

\* the lists of at most MaxList buttons
ButtonLists == UNION {[1..n -> Buttons] : n \in 0..MaxList}

\* MouseButtons::from(list).contains(button)
CallFromContains ==
    /\ pc = "idle"
    /\ \E list \in ButtonLists, button \in Buttons :
          LET btns == MouseButtons_from(list)
          IN  Return([fn |-> "MouseButtons::from.contains", self |-> list, arg |-> button],
                     IF btns.ok THEN MouseButtons_contains(btns.val, button) ELSE btns)

\* (a | b).contains(button)
CallBitOrContains ==
    /\ pc = "idle"
    /\ \E a \in Buttons, b \in Buttons, button \in Buttons :
          LET btns == MouseButton_bitor(a, b)
          IN  Return([fn |-> "MouseButton::bitor.contains", self |-> <<a, b>>, arg |-> button],
                     IF btns.ok THEN MouseButtons_contains(btns.val, button) ELSE btns)

NextMouse ==
    \/ CallFromContains
    \/ CallBitOrContains

\* the mouse-button bitset
SpecMouse == Init /\ [][NextMouse]_vars

\* i32 and u32 values at the ends of their ranges and around zero
I32Values == {MinI32, 0 - 1, 0, 1, MaxI32}
U32Values == {U32(0, 0), U32(0, 1), U32(Half \div 2 - 1, Half - 1),
              U32(Half \div 2, 0), U32(Half - 1, Half - 1)}

\* POINT::from(position)
CallPointFrom ==
    /\ pc = "idle"
    /\ \E v \in Positions("Physical", I32Values) :
          Return([fn |-> "POINT::from", self |-> v], Ok(POINT_from_PhysicalPosition(v)))

\* PhysicalPosition::from(point)
CallPositionFrom ==
    /\ pc = "idle"
    /\ \E x \in I32Values, y \in I32Values :
          Return([fn |-> "PhysicalPosition::from", self |-> POINT(x, y)],
                 Ok(PhysicalPosition_from_POINT(POINT(x, y))))

\* SIZE::from(size)
CallSizeFrom ==
    /\ pc = "idle"
    /\ \E v \in Sizes("Physical", U32Values) :
          Return([fn |-> "SIZE::from", self |-> v], Ok(SIZE_from_PhysicalSize(v)))

\* PhysicalSize::from(size)
CallPhysicalSizeFrom ==
    /\ pc = "idle"
    /\ \E cx \in I32Values, cy \in I32Values :
          Return([fn |-> "PhysicalSize::from", self |-> SIZE(cx, cy)],
                 Ok(PhysicalSize_from_SIZE(SIZE(cx, cy))))

\* RECT::from(rect)
CallRectFrom ==
    /\ pc = "idle"
    /\ \E v \in Rects("Physical", I32Values) :
          Return([fn |-> "RECT::from", self |-> v], Ok(RECT_from_PhysicalRect(v)))

\* PhysicalRect::from(rect)
CallPhysicalRectFrom ==
    /\ pc = "idle"
    /\ \E l \in I32Values, t \in I32Values, r \in I32Values, b \in I32Values :
          Return([fn |-> "PhysicalRect::from", self |-> RECT(l, t, r, b)],
                 Ok(PhysicalRect_from_RECT(RECT(l, t, r, b))))

NextHost ==
    \/ CallPointFrom
    \/ CallPositionFrom
    \/ CallSizeFrom
    \/ CallPhysicalSizeFrom
    \/ CallRectFrom
    \/ CallPhysicalRectFrom

\* the conversions to and from the host structures
SpecHost == Init /\ [][NextHost]_vars

\* operands of a collision predicate that are converted first: coordinates
\* on both sides of zero, and the scale factors 50%, 150%, 200%
ScaledRange == {0 - 1, 0, 1}
ScaledShapes(c) == Positions(c, ScaledRange) \cup Rects(c, ScaledRange)
ScaledDpis == {48, 144, 192}

\* the genuine conversion of a value: to_physical of a Logical value,
\* to_logical of a Physical one
convert(v, dpi) == IF v.coord = "Logical" THEN to_physical(v, dpi) ELSE to_logical(v, dpi)

\* is_crossing(&lhs.convert(dpi), &rhs.convert(dpi))
CallIsCrossingConverted ==
    /\ pc = "idle"
    /\ \E c \in {"Logical", "Physical"}, dpi \in ScaledDpis :
       \E lhs \in ScaledShapes(c), rhs \in ScaledShapes(c) :
          /\ <<lhs.kind, rhs.kind>> \in CollisionImpls
          /\ LET l == convert(lhs, dpi)
                 r == convert(rhs, dpi)
             IN  Return([fn |-> "is_crossing.converted", self |-> lhs, arg |-> rhs,
                         dpi |-> dpi],
                        IF ~l.ok THEN l ELSE IF ~r.ok THEN r
                        ELSE Ok(is_crossing(l.val, r.val)))

\* contains(&outer.convert(dpi), &inner.convert(dpi))
CallContainsConverted ==
    /\ pc = "idle"
    /\ \E c \in {"Logical", "Physical"}, dpi \in ScaledDpis :
       \E outer \in ScaledShapes(c), inner \in ScaledShapes(c) :
          /\ <<outer.kind, inner.kind>> \in CollisionImpls
          /\ LET o == convert(outer, dpi)
                 i == convert(inner, dpi)
             IN  Return([fn |-> "contains.converted", self |-> outer, arg |-> inner,
                         dpi |-> dpi],
                        IF ~o.ok THEN o ELSE IF ~i.ok THEN i
                        ELSE Ok(contains(o.val, i.val)))

NextScaled ==
    \/ CallIsCrossingConverted
    \/ CallContainsConverted

\* the collision predicates on converted operands
SpecScaled == Init /\ [][NextScaled]_vars

\* (contains(&outer, &inner), is_crossing(&outer, &inner))
CallContainsIsCrossing ==
    /\ pc = "idle"
    /\ \E c \in CoordTags :
       \E outer \in Rects(c, CoordRange), inner \in Rects(c, CoordRange) :
          Return([fn |-> "contains.is_crossing", self |-> outer, arg |-> inner],
                 Ok(<<contains(outer, inner), is_crossing(outer, inner)>>))

\* (contains(&outer, &inner), is_crossing(&inner, &outer))
CallContainsIsCrossingSwapped ==
    /\ pc = "idle"
    /\ \E c \in CoordTags :
       \E outer \in Rects(c, CoordRange), inner \in Rects(c, CoordRange) :
          Return([fn |-> "contains.is_crossing.swapped", self |-> outer, arg |-> inner],
                 Ok(<<contains(outer, inner), is_crossing(inner, outer)>>))

NextBoth ==
    \/ CallContainsIsCrossing
    \/ CallContainsIsCrossingSwapped

\* both predicates of Collision on one pair of rectangles
SpecBoth == Init /\ [][NextBoth]_vars

\* the arithmetic operators and the Rect constructors
SpecArith == Init /\ [][NextArith]_vars

\* every operation on tagged geometry values
NextGeometry ==
    \/ CallIsCrossing
    \/ CallContains
    \/ CallToLogical
    \/ CallToPhysical
    \/ CallBackToLogical
    \/ CallBackToPhysical
    \/ CallMul
    \/ CallDiv
    \/ CallDivBack
    \/ CallAdd
    \/ CallFromPositions
    \/ CallFromPositionSize

SpecGeometry == Init /\ [][NextGeometry]_vars

TypeOK ==
    /\ overflow_checks \in BOOLEAN
    /\ pc \in {"idle", "done"}
    /\ ret.ok \in BOOLEAN

(***************************************************************************)
(* Properties.  Each is a predicate on the state after a call: `call' is   *)
(* the call made, `ret' what it returned, `prev' the call before it.       *)
(***************************************************************************)
Components(v) ==
    CASE v.kind = "Position" -> <<v.x, v.y>>
      [] v.kind = "Size" -> <<v.width, v.height>>
      [] v.kind = "Rect" -> <<v.left, v.top, v.right, v.bottom>>

Called(fn, selfKind, argKind) ==
    /\ pc = "done"
    /\ call.fn = fn
    /\ call.self.kind = selfKind
    /\ call.arg.kind = argKind

\* p lies in the closed extent of r
InsideClosed(p, r) ==
    /\ r.left <= p.x /\ p.x <= r.right
    /\ r.top <= p.y /\ p.y <= r.bottom

\* p is one of the four corners of r
IsCornerOf(p, r) == p \in {left_top(r), left_bottom(r), right_top(r), right_bottom(r)}

WellFormed(r) == r.left <= r.right /\ r.top <= r.bottom

\* C1: is_crossing(r, p) is true iff r.left <= p.x <= r.right and
\* r.top <= p.y <= r.bottom; the intervals are closed.
C1_RectCrossingPoint ==
    Called("is_crossing", "Rect", "Position") =>
        /\ ret.ok
        /\ ret.val <=> InsideClosed(call.arg, call.self)

\* a point on the far corner of a rectangle with an interior crosses it
C1_Witness ==
    /\ Called("is_crossing", "Rect", "Position")
    /\ call.self.left < call.self.right /\ call.self.top < call.self.bottom
    /\ call.arg = right_bottom(call.self)
    /\ ret.val = TRUE

\* C2: is_crossing(A, B) is A.left <= B.right /\ A.top <= B.bottom /\
\* A.right >= B.left /\ A.bottom >= B.top for every order of the edges of A
\* and B; neither rectangle is normalized.
C2_RectCrossingRect ==
    Called("is_crossing", "Rect", "Rect") =>
        LET A == call.self
            B == call.arg
        IN  /\ ret.ok
            /\ ret.val <=> (A.left <= B.right /\ A.top <= B.bottom
                            /\ A.right >= B.left /\ A.bottom >= B.top)

\* an inverted A whose reordered extent would overlap B does not cross B
C2_Witness ==
    /\ Called("is_crossing", "Rect", "Rect")
    /\ call.self.left > call.self.right
    /\ call.arg.left = call.self.right /\ call.arg.right = call.self.right
    /\ call.self.top <= call.arg.bottom /\ call.self.bottom >= call.arg.top
    /\ ret.val = FALSE

\* C3: contains(outer, inner) is outer.left <= inner.left /\ outer.top <=
\* inner.top /\ outer.right >= inner.right /\ outer.bottom >= inner.bottom;
\* a rectangle contains itself, a sub-rectangle touching the far corner is
\* contained, one extending a unit past an edge is not.
C3_RectContainsRect ==
    Called("contains", "Rect", "Rect") =>
        LET outer == call.self
            inner == call.arg
        IN  /\ ret.ok
            /\ ret.val <=> (outer.left <= inner.left /\ outer.top <= inner.top
                            /\ outer.right >= inner.right /\ outer.bottom >= inner.bottom)
            /\ (inner = outer) => ret.val
            /\ (inner.left = outer.left /\ inner.top = outer.top
                /\ (inner.right = outer.right + 1 \/ inner.bottom = outer.bottom + 1))
               => ~ret.val

\* a sub-rectangle touching the far corner of a larger rectangle is contained
C3_Witness ==
    /\ Called("contains", "Rect", "Rect")
    /\ call.self.left < call.arg.left /\ call.self.top < call.arg.top
    /\ call.arg.left <= call.arg.right /\ call.arg.top <= call.arg.bottom
    /\ call.arg.right = call.self.right /\ call.arg.bottom = call.self.bottom
    /\ ret.val = TRUE

\* C4: is_crossing is symmetric: is_crossing(p, r) = is_crossing(r, p) and
\* is_crossing(A, B) = is_crossing(B, A), inverted rectangles included.
C4_CrossingSymmetric ==
    (pc = "done" /\ call.fn = "is_crossing") =>
        /\ ret.ok
        /\ ret.val <=> is_crossing(call.arg, call.self)

\* two distinct rectangles that only touch along an edge cross
C4_Witness ==
    /\ Called("is_crossing", "Rect", "Rect")
    /\ call.self.left = call.arg.right
    /\ call.arg.left < call.self.right
    /\ ret.val = TRUE

\* C5: with a point as one operand, contains returns what is_crossing
\* returns: contains(r, p) = is_crossing(r, p), contains(p, r) = is_crossing(p, r).
C5_PointContainsIsCrossing ==
    (pc = "done" /\ call.fn = "contains"
       /\ "Position" \in {call.self.kind, call.arg.kind}) =>
        /\ ret.ok
        /\ ret.val <=> is_crossing(call.self, call.arg)

\* a point "contains" a rectangle with an interior that it lies in
C5_Witness ==
    /\ Called("contains", "Position", "Rect")
    /\ call.arg.left < call.arg.right /\ call.arg.top < call.arg.bottom
    /\ ret.val = TRUE

\* C6 as stated: for every rectangle r, whatever the order of its edges,
\* contains(p, r) is true iff p is one of the four corners of r or p lies in
\* the closed extent of r.
C6_Original ==
    Called("contains", "Position", "Rect") =>
        (ret.val <=> (IsCornerOf(call.self, call.arg) \/ InsideClosed(call.self, call.arg)))

\* C6, amended: for a rectangle r with left <= right and top <= bottom,
\* contains(p, r) is true iff p is a corner of r or lies in its closed
\* extent; for a rectangle inverted on either axis contains(p, r) is false
\* for every p, the corners of r included.
C6_PointContainsRect ==
    Called("contains", "Position", "Rect") =>
        /\ ret.ok
        /\ WellFormed(call.arg) =>
              (ret.val <=> (IsCornerOf(call.self, call.arg)
                            \/ InsideClosed(call.self, call.arg)))
        /\ ~WellFormed(call.arg) => ~ret.val

\* the near-bottom corner of a rectangle with an interior contains it
C6_Witness ==
    /\ Called("contains", "Position", "Rect")
    /\ call.arg.left < call.arg.right /\ call.arg.top < call.arg.bottom
    /\ call.self = left_bottom(call.arg)
    /\ ret.val = TRUE

\* q is the quotient of n by d rounded toward zero
IsTruncatedQuotient(q, n, d) ==
    LET r == n - q * d
    IN  /\ Abs(r) < Abs(d)
        /\ r = 0 \/ ((r > 0) <=> (n > 0))

\* C7: over integers, Logical->Physical maps every component a to
\* (a * dpi) / 96 and Physical->Logical maps it to (a * 96) / dpi, the
\* product taken before the truncating division; at dpi = 2 * 96
\* to_physical doubles every component.
C7_ConversionFormula ==
    /\ (pc = "done" /\ call.fn = "to_physical" /\ call.self.coord = "Logical") =>
          /\ ret.ok
          /\ ret.val.kind = call.self.kind
          /\ ret.val.coord = "Physical"
          /\ \A i \in DOMAIN Components(call.self) :
                LET a == Components(call.self)[i]
                    c == Components(ret.val)[i]
                IN  /\ IsTruncatedQuotient(c, a * call.arg, 96)
                    /\ call.arg = 2 * 96 => c = 2 * a
    /\ (pc = "done" /\ call.fn = "to_logical" /\ call.self.coord = "Physical"
          /\ call.arg # 0) =>
          /\ ret.ok
          /\ ret.val.kind = call.self.kind
          /\ ret.val.coord = "Logical"
          /\ \A i \in DOMAIN Components(call.self) :
                IsTruncatedQuotient(Components(ret.val)[i],
                                    Components(call.self)[i] * 96, call.arg)

\* at 150% a logical edge of 2 becomes 3 = (2 * 144) / 96, not 2 * (144 / 96)
C7_Witness ==
    /\ pc = "done" /\ call.fn = "to_physical"
    /\ call.self.coord = "Logical" /\ call.self.kind = "Rect"
    /\ call.arg = 144
    /\ call.self.left = 2
    /\ ret.ok /\ ret.val.left = 3

\* C8: conversion to the space a value is already in returns the value
\* unchanged for every dpi, zero and negative included, without an error.
C8_SameSpaceIdentity ==
    /\ (pc = "done" /\ call.fn = "to_logical" /\ call.self.coord = "Logical") =>
          (ret.ok /\ ret.val = call.self)
    /\ (pc = "done" /\ call.fn = "to_physical" /\ call.self.coord = "Physical") =>
          (ret.ok /\ ret.val = call.self)

\* a logical rectangle converted to logical at dpi = 0 comes back unchanged
C8_Witness ==
    /\ pc = "done" /\ call.fn = "to_logical" /\ prev = NoCall
    /\ call.self.coord = "Logical" /\ call.self.kind = "Rect"
    /\ call.self.right # 0
    /\ call.arg = 0
    /\ ret.ok /\ ret.val = call.self

\* C9: at the same dpi > 0 the two conversions are inverses when no
\* division truncates: if a * dpi is a multiple of 96 for every component a
\* then to_logical(to_physical(v, dpi), dpi) = v, and if a * 96 is a multiple
\* of dpi then to_physical(to_logical(v, dpi), dpi) = v.
C9_RoundTrip ==
    /\ (pc = "done" /\ prev.fn = "to_physical" /\ call.fn = "to_logical"
          /\ prev.self.coord = "Logical" /\ prev.arg > 0
          /\ \A i \in DOMAIN Components(prev.self) :
                (Components(prev.self)[i] * prev.arg) % 96 = 0) =>
          (ret.ok /\ ret.val = prev.self)
    /\ (pc = "done" /\ prev.fn = "to_logical" /\ call.fn = "to_physical"
          /\ prev.self.coord = "Physical" /\ prev.arg > 0
          /\ \A i \in DOMAIN Components(prev.self) :
                (Components(prev.self)[i] * 96) % prev.arg = 0) =>
          (ret.ok /\ ret.val = prev.self)

\* a logical rectangle with left = 2 goes to left = 1 at 50% and back to 2
C9_Witness ==
    /\ pc = "done" /\ prev.fn = "to_physical" /\ call.fn = "to_logical"
    /\ prev.self.coord = "Logical" /\ prev.self.kind = "Rect"
    /\ prev.arg = 48
    /\ prev.self.left = 2 /\ call.self.left = 1
    /\ ret.ok /\ ret.val = prev.self

\* C10 as stated: to_logical at dpi = 2 * 96 returns, for every component
\* value, a component whose double is the source component.
C10_Original ==
    (pc = "done" /\ call.fn = "to_logical" /\ call.self.coord = "Physical"
       /\ call.arg = 2 * 96) =>
        /\ ret.ok
        /\ \A i \in DOMAIN Components(call.self) :
              Components(ret.val)[i] * 2 = Components(call.self)[i]

\* C10, amended: to_logical at dpi = 2 * 96 maps every component a to a / 2
\* rounded toward zero: the double of the result is a when a is even, a - 1
\* when a is odd and positive, a + 1 when a is odd and negative.
C10_HalvesTowardZero ==
    (pc = "done" /\ call.fn = "to_logical" /\ call.self.coord = "Physical"
       /\ call.arg = 2 * 96) =>
        /\ ret.ok
        /\ \A i \in DOMAIN Components(call.self) :
              LET a == Components(call.self)[i]
                  c == Components(ret.val)[i]
              IN  c * 2 = (IF a % 2 = 0 THEN a ELSE IF a > 0 THEN a - 1 ELSE a + 1)

\* a physical rectangle with an odd negative and an even edge, halved
C10_Witness ==
    /\ pc = "done" /\ call.fn = "to_logical"
    /\ call.self.coord = "Physical" /\ call.self.kind = "Rect"
    /\ call.arg = 2 * 96
    /\ call.self.left = 0 - 1 /\ call.self.right = 2
    /\ ret.ok /\ ret.val.left = 0 /\ ret.val.right = 1

\* C11: the coordinate-space tag changes only in a Logical<->Physical
\* conversion: the operands of an arithmetic operator or a collision
\* predicate carry one tag and an arithmetic result carries it too,
\* to_logical returns a Logical value, to_physical a Physical one, and no
\* conversion takes or returns a Screen value.
C11_TagsKept ==
    pc = "done" =>
        /\ call.fn \in {"is_crossing", "contains", "add"} =>
              call.self.coord = call.arg.coord
        /\ (call.fn \in {"mul", "div", "add"} /\ ret.ok) =>
              ret.val.coord = call.self.coord
        /\ call.fn = "to_logical" =>
              /\ call.self.coord \in {"Logical", "Physical"}
              /\ ret.ok => ret.val.coord = "Logical"
        /\ call.fn = "to_physical" =>
              /\ call.self.coord \in {"Logical", "Physical"}
              /\ ret.ok => ret.val.coord = "Physical"

\* a physical rectangle converted at 150% comes back tagged Logical
C11_Witness ==
    /\ pc = "done" /\ call.fn = "to_logical" /\ call.arg = 144
    /\ call.self.kind = "Rect" /\ call.self.coord = "Physical"
    /\ ret.ok /\ ret.val.coord = "Logical" /\ ret.val.kind = "Rect"

\* C12 as stated: with dpi = 0 either genuine conversion, to_physical of a
\* Logical value and to_logical of a Physical value, ends in a division by
\* zero instead of returning.
C12_Original ==
    (pc = "done" /\ call.fn \in {"to_logical", "to_physical"} /\ call.arg = 0
       /\ call.self.coord = (IF call.fn = "to_logical" THEN "Physical" ELSE "Logical")) =>
        (~ret.ok /\ ret.val = "attempt to divide by zero")

\* C12, amended: with dpi = 0, to_logical of a Physical value ends in a
\* division by zero; to_physical of a Logical value divides by 96, not by
\* dpi, and returns the value with every component 0.
C12_ZeroDpi ==
    /\ (pc = "done" /\ call.fn = "to_logical" /\ call.arg = 0
          /\ call.self.coord = "Physical") =>
          (~ret.ok /\ ret.val = "attempt to divide by zero")
    /\ (pc = "done" /\ call.fn = "to_physical" /\ call.arg = 0
          /\ call.self.coord = "Logical") =>
          /\ ret.ok
          /\ ret.val.kind = call.self.kind
          /\ \A i \in DOMAIN Components(ret.val) : Components(ret.val)[i] = 0

\* a physical rectangle with non-zero edges, converted to logical at dpi = 0
C12_Witness ==
    /\ pc = "done" /\ call.fn = "to_logical" /\ call.arg = 0
    /\ call.self.coord = "Physical" /\ call.self.kind = "Rect"
    /\ call.self.left # 0 /\ call.self.right # 0
    /\ ~ret.ok /\ ret.val = "attempt to divide by zero"

\* C13: for every component a representable in T and every dpi > 0 a
\* genuine conversion neither panics nor wraps: whenever the quotient of
\* a * dpi by 96 (to_physical) or of a * 96 by dpi (to_logical), computed
\* over the unbounded integers and rounded toward zero, is representable,
\* the conversion returns it; at dpi = 96 every value comes back unchanged.
C13_Original ==
    /\ (pc = "done" /\ call.fn = "to_physical" /\ call.self.coord = "Logical"
          /\ call.arg > 0
          /\ \A i \in DOMAIN Components(call.self) :
                InRange(TruncDiv(Components(call.self)[i] * call.arg, 96))) =>
          /\ ret.ok
          /\ \A i \in DOMAIN Components(call.self) :
                IsTruncatedQuotient(Components(ret.val)[i],
                                    Components(call.self)[i] * call.arg, 96)
    /\ (pc = "done" /\ call.fn = "to_logical" /\ call.self.coord = "Physical"
          /\ call.arg > 0
          /\ \A i \in DOMAIN Components(call.self) :
                InRange(TruncDiv(Components(call.self)[i] * 96, call.arg))) =>
          /\ ret.ok
          /\ \A i \in DOMAIN Components(call.self) :
                IsTruncatedQuotient(Components(ret.val)[i],
                                    Components(call.self)[i] * 96, call.arg)

\* C14: (pos * k) / k = pos for every Position pos with integer components,
\* negative ones included, and every non-zero integer k, negative ones
\* included.
C14_MulDivIdentity ==
    (pc = "done" /\ prev.fn = "mul" /\ call.fn = "div"
       /\ prev.self.kind = "Position" /\ prev.arg # 0) =>
        (ret.ok /\ ret.val = prev.self)

\* a position with a negative and a positive component, scaled by -2 and back
C14_Witness ==
    /\ pc = "done" /\ prev.fn = "mul" /\ call.fn = "div"
    /\ prev.self.kind = "Position" /\ prev.arg = 0 - 2
    /\ prev.self.x = 0 - 1 /\ prev.self.y = 2
    /\ call.self.x = 2 /\ call.self.y = 0 - 4
    /\ ret.ok /\ ret.val = prev.self

\* C15: r = Rect::from_position_size(p, s) has left = p.x, top = p.y,
\* right = p.x + s.width, bottom = p.y + s.height, so r.left_top() = p,
\* r.right_bottom() = p + s and r.size() = s; Rect::from_positions(a, b) has
\* left_top() = a and right_bottom() = b, the edges never reordered.
C15_RectConstructors ==
    /\ (pc = "done" /\ call.fn = "from_position_size") =>
          LET p == call.self
              sz == call.arg
              r == ret.val
          IN  /\ ret.ok
              /\ r.left = p.x /\ r.top = p.y
              /\ r.right = p.x + sz.width /\ r.bottom = p.y + sz.height
              /\ left_top(r) = p
              /\ Position_add_Size(p, sz).ok
              /\ right_bottom(r) = Position_add_Size(p, sz).val
              /\ Rect_size(r).ok
              /\ Rect_size(r).val = sz
    /\ (pc = "done" /\ call.fn = "from_positions") =>
          /\ ret.ok
          /\ left_top(ret.val) = call.self
          /\ right_bottom(ret.val) = call.arg

\* a second corner left of and above the first gives an inverted rectangle
C15_Witness ==
    /\ pc = "done" /\ call.fn = "from_positions"
    /\ call.arg.x < call.self.x /\ call.arg.y < call.self.y
    /\ ret.ok
    /\ ret.val.left > ret.val.right /\ ret.val.top > ret.val.bottom

\* C16: the bitset built from a list L of buttons (by From, or by `|`)
\* contains a button b iff b occurs in L, for b among Left, Right, Middle
\* and Ex(i) for every index i.
C16_Original ==
    (pc = "done" /\ call.fn \in {"MouseButtons::from.contains", "MouseButton::bitor.contains"}) =>
        /\ ret.ok
        /\ ret.val <=> (\E i \in DOMAIN call.self : call.self[i] = call.arg)

\* the u32 v and the i32 n are the same integer
SameInteger(v, n) == v.hi < Half \div 2 /\ n = v.hi * Half + v.lo

\* C17 as stated: every field of the result of a conversion between
\* PhysicalPosition<i32> and POINT, PhysicalSize<u32> and SIZE,
\* PhysicalRect<i32> and RECT has the same integer value as the field of the
\* source, for every representable source value.
C17_Original ==
    /\ (pc = "done" /\ call.fn \in {"POINT::from", "PhysicalPosition::from"}) =>
          (ret.val.x = call.self.x /\ ret.val.y = call.self.y)
    /\ (pc = "done" /\ call.fn \in {"RECT::from", "PhysicalRect::from"}) =>
          /\ ret.val.left = call.self.left /\ ret.val.top = call.self.top
          /\ ret.val.right = call.self.right /\ ret.val.bottom = call.self.bottom
    /\ (pc = "done" /\ call.fn = "SIZE::from") =>
          /\ SameInteger(call.self.width, ret.val.cx)
          /\ SameInteger(call.self.height, ret.val.cy)
    /\ (pc = "done" /\ call.fn = "PhysicalSize::from") =>
          /\ SameInteger(ret.val.width, call.self.cx)
          /\ SameInteger(ret.val.height, call.self.cy)

\* C17, amended: POINT and RECT conversions keep the integer value of every
\* field.  SIZE conversions keep the 32 bits of every field: the value is
\* the same when it lies in 0..i32::MAX, a width or height above i32::MAX
\* becomes a negative cx or cy, a negative cx or cy becomes a width or
\* height above i32::MAX, and converting back returns the source.
C17_HostConversions ==
    /\ (pc = "done" /\ call.fn \in {"POINT::from", "PhysicalPosition::from"}) =>
          (ret.ok /\ ret.val.x = call.self.x /\ ret.val.y = call.self.y)
    /\ (pc = "done" /\ call.fn \in {"RECT::from", "PhysicalRect::from"}) =>
          /\ ret.ok
          /\ ret.val.left = call.self.left /\ ret.val.top = call.self.top
          /\ ret.val.right = call.self.right /\ ret.val.bottom = call.self.bottom
    /\ (pc = "done" /\ call.fn = "SIZE::from") =>
          /\ ret.ok
          /\ \A f \in {<<call.self.width, ret.val.cx>>, <<call.self.height, ret.val.cy>>} :
                /\ f[1].hi < Half \div 2 => SameInteger(f[1], f[2])
                /\ f[1].hi >= Half \div 2 => f[2] < 0
          /\ PhysicalSize_from_SIZE(ret.val) = call.self
    /\ (pc = "done" /\ call.fn = "PhysicalSize::from") =>
          /\ ret.ok
          /\ \A f \in {<<ret.val.width, call.self.cx>>, <<ret.val.height, call.self.cy>>} :
                /\ f[2] >= 0 => SameInteger(f[1], f[2])
                /\ f[2] < 0 => f[1].hi >= Half \div 2
          /\ SIZE_from_PhysicalSize(ret.val) = call.self

\* a width of u32::MAX becomes cx = -1, a height of 1 stays 1
C17_Witness ==
    /\ pc = "done" /\ call.fn = "SIZE::from"
    /\ call.self.width = U32(Half - 1, Half - 1) /\ call.self.height = U32(0, 1)
    /\ ret.val.cx = 0 - 1 /\ ret.val.cy = 1

\* the points of the grid, in the coordinate space of r
GridPoints(r) == Positions(r.coord, CoordRange)

\* some point of the grid lies in the closed extents of both A and B
SharePoint(A, B) == \E p \in GridPoints(A) : InsideClosed(p, A) /\ InsideClosed(p, B)

\* C18 as stated: for every pair of rectangles, whatever the order of their
\* edges, is_crossing(A, B) is true iff some point lies in both closed
\* extents.
C18_Original ==
    Called("is_crossing", "Rect", "Rect") =>
        (ret.val <=> SharePoint(call.self, call.arg))

\* C18, amended: for rectangles A and B that both have left <= right and
\* top <= bottom, is_crossing(A, B) is true iff some point lies in both
\* closed extents.
C18_CrossingIsIntersection ==
    (Called("is_crossing", "Rect", "Rect")
       /\ WellFormed(call.self) /\ WellFormed(call.arg)) =>
        /\ ret.ok
        /\ ret.val <=> SharePoint(call.self, call.arg)

\* two rectangles with an interior that share one corner point only
C18_Witness ==
    /\ Called("is_crossing", "Rect", "Rect")
    /\ call.self.left < call.self.right /\ call.self.top < call.self.bottom
    /\ call.arg.left < call.arg.right /\ call.arg.top < call.arg.bottom
    /\ call.self.right = call.arg.left /\ call.self.bottom = call.arg.top
    /\ ret.val = TRUE

\* C19: for every rectangle outer and every inner with left <= right and
\* top <= bottom, contains(outer, inner) is true iff every point that inner
\* contains is a point that outer contains, and iff outer contains the four
\* corners of inner.
C19_ContainsIsInclusion ==
    (Called("contains", "Rect", "Rect") /\ WellFormed(call.arg)) =>
        LET outer == call.self
            inner == call.arg
        IN  /\ ret.ok
            /\ ret.val <=> (\A p \in GridPoints(inner) :
                               contains(inner, p) => contains(outer, p))
            /\ ret.val <=> (\A p \in {left_top(inner), left_bottom(inner),
                                      right_top(inner), right_bottom(inner)} :
                               contains(outer, p))

\* an inner rectangle with an interior that reaches past the far corner of
\* outer is not contained, though its near corner is
C19_Witness ==
    /\ Called("contains", "Rect", "Rect")
    /\ call.arg.left < call.arg.right /\ call.arg.top < call.arg.bottom
    /\ call.self.left <= call.arg.left /\ call.self.top <= call.arg.top
    /\ call.arg.left <= call.self.right /\ call.arg.top <= call.self.bottom
    /\ call.arg.right > call.self.right
    /\ ret.val = FALSE

\* C20: for dpi > 0, if is_crossing or contains holds for two operands then
\* it holds for the two operands converted at dpi, from Logical to Physical
\* and from Physical to Logical.
C20_ConversionKeepsCollision ==
    /\ (pc = "done" /\ call.fn = "is_crossing.converted"
          /\ is_crossing(call.self, call.arg)) =>
          (ret.ok /\ ret.val)
    /\ (pc = "done" /\ call.fn = "contains.converted"
          /\ contains(call.self, call.arg)) =>
          (ret.ok /\ ret.val)

\* a logical rectangle contains a point on its far corner, and still does
\* once both are doubled
C20_Witness ==
    /\ pc = "done" /\ call.fn = "contains.converted" /\ call.dpi = 192
    /\ call.self.kind = "Rect" /\ call.self.coord = "Logical"
    /\ call.arg.kind = "Position"
    /\ call.self.left = 0 - 1 /\ call.self.top = 0 - 1
    /\ call.self.right = 1 /\ call.self.bottom = 1
    /\ call.arg = right_bottom(call.self)
    /\ ret.ok /\ ret.val = TRUE

\* C21: for every rectangle outer and every inner with left <= right and
\* top <= bottom, contains(outer, inner) implies is_crossing(outer, inner)
\* and is_crossing(inner, outer).
C21_ContainsImpliesCrossing ==
    (pc = "done"
       /\ call.fn \in {"contains.is_crossing", "contains.is_crossing.swapped"}
       /\ WellFormed(call.arg)) =>
        /\ ret.ok
        /\ ret.val[1] => ret.val[2]

\* outer contains an inner rectangle that lies on its far edges, and inner
\* crosses outer
C21_Witness ==
    /\ pc = "done" /\ call.fn = "contains.is_crossing.swapped"
    /\ call.self.left < call.arg.left /\ call.self.top < call.arg.top
    /\ call.arg.left < call.arg.right /\ call.arg.top < call.arg.bottom
    /\ call.arg.right = call.self.right /\ call.arg.bottom = call.self.bottom
    /\ ret.val = <<TRUE, TRUE>>

====
